---- MODULE Spec2Model ----
(***************************************************************************)
(* Model of `now list` (src/src/providers/sh/commands/list.js): the        *)
(* three-tier resolution of the target, the --all instance fan-out, the    *)
(* grouping by application name and the rendering of the report.           *)
(*                                                                         *)
(* The remote API (now.list, now.findDeployment, now.listAliases,          *)
(* now.listInstances) is the variable `server`: what each call answers     *)
(* when it succeeds.  Whether a call succeeds is decided at the call.      *)
(***************************************************************************)
EXTENDS Integers, Sequences, FiniteSets, TLC

VARIABLES
  argvAll,        \* argv.all
  app,            \* module-level `app` (argv._[0]); Undefined when omitted
  supportsColor,  \* require('supports-color')
  server,         \* answers of the remote API
  pc,             \* position inside main()/list()
  deployments,    \* `deployments` of list()
  item,           \* `item` of tier 3: <<>> or <<alias entry>>
  fetch,          \* state of each promise handed to Promise.all
  writes,         \* number of assignments to deployments[i].instances
  apps,           \* the Map `apps`, as a sequence of <<name, deps>>
  sorted,         \* result of sort([...apps])
  calls,          \* collaborator calls, in call order
  output,         \* lines written so far
  exitCode        \* status the process ends with (0 unless process.exit(1))

vars == << argvAll, app, supportsColor, server, pc, deployments, item, fetch,
           writes, apps, sorted, calls, output, exitCode >>

------------------------------------------------------------------------------
(* Bounds of the model *)

MaxRich == 2      \* longest now.list answer whose members vary in every field
MaxLong == 7      \* longest now.list answer (members vary in name only)
MaxAliases == 2   \* longest alias table
MaxInst == 1      \* most instances of one deployment

(* Program constants *)

ShowAllThreshold == 5   \* app[1].length > 5
DisplayCap == 5         \* deps.slice(0, 5)
UrlPadding == 5         \* ... + 5
ColorPad == 10          \* urlLength + 10
PlainPad == 1           \* urlLength + 1
InstPad == 10           \* urlLength + 10 of the instance rows

Undefined == "undefined"   \* the JS value undefined, for `app`
NoScale == 0 - 1            \* dep.scale is absent

------------------------------------------------------------------------------
(* Data *)

Names == {"a", "b"}
Urls == {"a.co", "longer.co"}
Scales == {NoScale, 1, 2}
Targets == {Undefined, "a"}
DeploymentIds == {"d1", "d2"}
FindKeys == Targets \cup DeploymentIds

Deployment(uid, name, url, scale) ==
  [uid |-> uid, name |-> name, url |-> url, scale |-> scale, instances |-> << >>]

\* The deployment now.findDeployment(key) answers with, when there is one.
FoundUid(key) ==
  CASE key = Undefined -> 10
    [] key = "a" -> 11
    [] key = "d1" -> 12
    [] OTHER -> 13

FoundDep(key) == Deployment(FoundUid(key), "f", "found.co", 1)

RichLists ==
  UNION { { [i \in 1..n |-> Deployment(i, f[i][1], f[i][2], f[i][3])] :
              f \in [1..n -> Names \X Urls \X Scales] } : n \in 1..MaxRich }

LongLists ==
  UNION { { [i \in 1..n |-> Deployment(i, f[i], "a.co", 1)] :
              f \in [1..n -> Names] } : n \in (MaxRich + 1)..MaxLong }

AliasEntries ==
  [uid : {"a", "u"}, alias : {"a", "x"}, deploymentId : DeploymentIds]

AliasTables == UNION { [1..n -> AliasEntries] : n \in 0..MaxAliases }

\* Instances of deployment uid under instance layout m.
InstancesOf(m, uid) ==
  [j \in 1..((uid + m) % (MaxInst + 1)) |-> [url |-> <<uid, j>>]]

NoneFound == [k \in FindKeys |-> FALSE]

\* A non-empty listing never consults the find and alias tables, so they are
\* fixed there; an empty listing varies them.  Long listings vary the names only.

Servers ==
  { [list |-> l, find |-> NoneFound, aliases |-> << >>, inst |-> m] :
      l \in RichLists, m \in 0..MaxInst }
  \cup
  { [list |-> l, find |-> NoneFound, aliases |-> << >>, inst |-> 0] :
      l \in LongLists }
  \cup
  { [list |-> << >>, find |-> f, aliases |-> t, inst |-> 0] :
      f \in [FindKeys -> BOOLEAN], t \in AliasTables }

------------------------------------------------------------------------------
(* Pure helpers of list() *)

Min(a, b) == IF a < b THEN a ELSE b
Max(a, b) == IF a > b THEN a ELSE b

\* !app
Falsy(a) == a = Undefined

\* faulty variant: the check asks for a target instead of its absence
UsageErrorInverted(all, a) == all /\ ~Falsy(a)

\* argv.all && !app
UsageError(all, a) == all /\ Falsy(a)

\* faulty variant: falls back whatever the previous tier returned
NeedsFallbackAlways(deps) == Len(deps) >= 0

\* !deployments || (Array.isArray(deployments) && deployments.length <= 0)
NeedsFallback(deps) == Len(deps) <= 0

\* now.findDeployment(key), as null (<< >>) or the match (<<d>>)
FindDeployment(srv, key) == IF srv.find[key] THEN << FoundDep(key) >> ELSE << >>

\* if (match !== null && typeof match !== 'undefined') deployments = Array.of(match)
WithMatch(deps, match) == IF match # << >> THEN match ELSE deps

\* faulty variant: the alias field is not compared
AliasMatchesUidOnly(e, a) == e.uid = a

\* e.uid === app || e.alias === app
AliasMatches(e, a) == e.uid = a \/ e.alias = a

\* aliases.find(...): << >> for undefined, else the first entry that matches
AliasFind(aliases, a) ==
  IF \E i \in 1..Len(aliases) : AliasMatches(aliases[i], a)
  THEN << aliases[CHOOSE i \in 1..Len(aliases) :
                    /\ AliasMatches(aliases[i], a)
                    /\ \A j \in 1..(i - 1) : ~AliasMatches(aliases[j], a)] >>
  ELSE << >>

\* deployments[i].instances = <result>
AttachInstances(deps, i, insts) == [deps EXCEPT ![i].instances = insts]

\* faulty variant: the join waits for one fetch only
JoinOnAny(f) == \E i \in DOMAIN f : f[i] = "done"

\* Promise.all resolves when every promise has resolved
JoinReady(f) == \A i \in DOMAIN f : f[i] = "done"

------------------------------------------------------------------------------
Init ==
  /\ argvAll \in BOOLEAN
  /\ app \in Targets
  /\ supportsColor \in BOOLEAN
  /\ server \in Servers
  /\ pc = "start"
  /\ deployments = << >>
  /\ item = << >>
  /\ fetch = << >>
  /\ writes = << >>
  /\ apps = << >>
  /\ sorted = << >>
  /\ calls = << >>
  /\ output = << >>
  /\ exitCode = 0


Call(fn, tier, key, uid, ok, empty) ==
  [fn |-> fn, tier |-> tier, key |-> key, uid |-> uid, ok |-> ok, empty |-> empty]

Line(kind, name, uid, k, n, width, len) ==
  [kind |-> kind, name |-> name, uid |-> uid, k |-> k, n |-> n,
   width |-> width, len |-> len]

\* process.exit(1): nothing of list() runs after it
Exit(line) ==
  /\ pc' = "exit"
  /\ exitCode' = 1
  /\ output' = Append(output, line)

\* main's catch: console.error(error(`Unknown error: ...`)); process.exit(1)
UnknownError == Exit(Line("error", "unknown", 0, 0, 0, 0, 0))

\* handleError(err); process.exit(1)
HandledError == Exit(Line("error", "handled", 0, 0, 0, 0, 0))

\* pc after the resolution tiers: now.close(), then the fan-out or the grouping
AfterTier1(deps) == IF NeedsFallback(deps) THEN "find2" ELSE "close"
AfterTier2(deps) == IF NeedsFallback(deps) THEN "aliases" ELSE "close"

------------------------------------------------------------------------------
(* list(), lines 101-138: usage check and resolution *)

CheckUsage ==
  /\ pc = "start"
  /\ IF UsageError(argvAll, app)
     THEN Exit(Line("usage", "", 0, 0, 0, 0, 0))
     ELSE /\ pc' = "list"
          /\ UNCHANGED << output, exitCode >>
  /\ UNCHANGED << argvAll, app, supportsColor, server, deployments, item, fetch,
                  writes, apps, sorted, calls >>

NowListOk ==
  /\ pc = "list"
  /\ deployments' = server.list
  /\ calls' = Append(calls, Call("list", 1, app, 0, TRUE, server.list = << >>))
  /\ pc' = AfterTier1(deployments')
  /\ UNCHANGED << argvAll, app, supportsColor, server, item, fetch, writes, apps,
                  sorted, output, exitCode >>

NowListFail ==
  /\ pc = "list"
  /\ calls' = Append(calls, Call("list", 1, app, 0, FALSE, FALSE))
  /\ HandledError
  /\ UNCHANGED << argvAll, app, supportsColor, server, deployments, item, fetch,
                  writes, apps, sorted >>

FindDeploymentOk ==
  /\ pc = "find2"
  /\ LET match == FindDeployment(server, app) IN
       /\ deployments' = WithMatch(deployments, match)
       /\ calls' = Append(calls, Call("findDeployment", 2, app, 0, TRUE, match = << >>))
  /\ pc' = AfterTier2(deployments')
  /\ UNCHANGED << argvAll, app, supportsColor, server, item, fetch, writes, apps,
                  sorted, output, exitCode >>

FindDeploymentFail ==
  /\ pc = "find2"
  /\ calls' = Append(calls, Call("findDeployment", 2, app, 0, FALSE, FALSE))
  /\ UnknownError
  /\ UNCHANGED << argvAll, app, supportsColor, server, deployments, item, fetch,
                  writes, apps, sorted >>

ListAliasesOk ==
  /\ pc = "aliases"
  /\ item' = AliasFind(server.aliases, app)
  /\ calls' = Append(calls, Call("listAliases", 3, app, 0, TRUE, server.aliases = << >>))
  /\ pc' = IF item' # << >> THEN "find3" ELSE "close"
  /\ UNCHANGED << argvAll, app, supportsColor, server, deployments, fetch, writes,
                  apps, sorted, output, exitCode >>

ListAliasesFail ==
  /\ pc = "aliases"
  /\ calls' = Append(calls, Call("listAliases", 3, app, 0, FALSE, FALSE))
  /\ UnknownError
  /\ UNCHANGED << argvAll, app, supportsColor, server, deployments, item, fetch,
                  writes, apps, sorted >>

FindAliasedOk ==
  /\ pc = "find3"
  /\ LET match == FindDeployment(server, item[1].deploymentId) IN
       /\ deployments' = WithMatch(deployments, match)
       /\ calls' = Append(calls, Call("findDeployment", 3, item[1].deploymentId, 0,
                                      TRUE, match = << >>))
  /\ pc' = "close"
  /\ UNCHANGED << argvAll, app, supportsColor, server, item, fetch, writes, apps,
                  sorted, output, exitCode >>

FindAliasedFail ==
  /\ pc = "find3"
  /\ calls' = Append(calls, Call("findDeployment", 3, item[1].deploymentId, 0,
                                 FALSE, FALSE))
  /\ UnknownError
  /\ UNCHANGED << argvAll, app, supportsColor, server, deployments, item, fetch,
                  writes, apps, sorted >>

------------------------------------------------------------------------------
(* list(), lines 140-150: now.close() and the --all fan-out *)

\* deployments.map(async ({ uid }, i) => ...): every listInstances call is
\* issued before the first await of list() yields.
InstanceCalls(deps) ==
  [i \in 1..Len(deps) |-> Call("listInstances", 4, "", deps[i].uid, TRUE, FALSE)]

Close ==
  /\ pc = "close"
  /\ IF argvAll
     THEN /\ pc' = "instances"
          /\ fetch' = [i \in 1..Len(deployments) |-> "pending"]
          /\ writes' = [i \in 1..Len(deployments) |-> 0]
          /\ calls' = calls \o InstanceCalls(deployments)
     ELSE /\ pc' = "group"
          /\ UNCHANGED << fetch, writes, calls >>
  /\ UNCHANGED << argvAll, app, supportsColor, server, deployments, item, apps,
                  sorted, output, exitCode >>

FetchDone(i) ==
  /\ pc = "instances"
  /\ fetch[i] = "pending"
  /\ deployments' = AttachInstances(deployments, i,
                                    InstancesOf(server.inst, deployments[i].uid))
  /\ fetch' = [fetch EXCEPT ![i] = "done"]
  /\ writes' = [writes EXCEPT ![i] = @ + 1]
  /\ UNCHANGED << argvAll, app, supportsColor, server, pc, item, apps, sorted,
                  calls, output, exitCode >>

\* A rejected listInstances rejects Promise.all; the await throws into main's catch.
FetchFail(i) ==
  /\ pc = "instances"
  /\ fetch[i] = "pending"
  /\ fetch' = [fetch EXCEPT ![i] = "failed"]
  /\ UnknownError
  /\ UNCHANGED << argvAll, app, supportsColor, server, deployments, item, writes,
                  apps, sorted, calls >>

Join ==
  /\ pc = "instances"
  /\ JoinReady(fetch)
  /\ pc' = "group"
  /\ UNCHANGED << argvAll, app, supportsColor, server, deployments, item, fetch,
                  writes, apps, sorted, calls, output, exitCode >>

------------------------------------------------------------------------------
(* list(), lines 142-157: grouping by name and sort() *)

\* position of the entry with key `name` in the Map, 0 when there is none
MapIndex(m, name) ==
  IF \E i \in 1..Len(m) : m[i][1] = name
  THEN CHOOSE i \in 1..Len(m) : m[i][1] = name
  ELSE 0

\* apps.get(dep.name) || []
MapGet(m, name) == IF MapIndex(m, name) = 0 THEN << >> ELSE m[MapIndex(m, name)][2]

\* apps.set(name, deps): a new key goes last, an old key keeps its place
MapSet(m, name, deps) ==
  IF MapIndex(m, name) = 0
  THEN Append(m, << name, deps >>)
  ELSE [m EXCEPT ![MapIndex(m, name)] = << name, deps >>]

\* faulty variant: the new member is put in front
ConcatFront(deps, dep) == << dep >> \o deps

\* deps.concat(dep)
Concat(deps, dep) == Append(deps, dep)

\* for (const dep of deployments) { ... }
RECURSIVE GroupFrom(_, _, _)
GroupFrom(m, deps, i) ==
  IF i > Len(deps) THEN m
  ELSE GroupFrom(MapSet(m, deps[i].name, Concat(MapGet(m, deps[i].name), deps[i])),
                 deps, i + 1)

GroupByName(deps) == GroupFrom(<< >>, deps, 1)

Group ==
  /\ pc = "group"
  /\ apps' = GroupByName(deployments)
  /\ pc' = "sort"
  /\ UNCHANGED << argvAll, app, supportsColor, server, deployments, item, fetch,
                  writes, sorted, calls, output, exitCode >>

\* sort-deployments: some total order of the groups, members untouched
Orderings(m) ==
  { [i \in 1..Len(m) |-> m[p[i]]] :
      p \in { q \in [1..Len(m) -> 1..Len(m)] :
                \A i, j \in 1..Len(m) : q[i] = q[j] => i = j } }

Sort ==
  /\ pc = "sort"
  /\ sorted' \in Orderings(apps)
  /\ pc' = "render"
  /\ UNCHANGED << argvAll, app, supportsColor, server, deployments, item, fetch,
                  writes, apps, calls, output, exitCode >>

------------------------------------------------------------------------------
(* list(), lines 159-262: layout and rendering *)

\* deployments.reduce((acc, i) => Math.max(acc, (i.url && i.url.length) || 0), 0)
RECURSIVE MaxUrl(_, _, _)
MaxUrl(deps, i, acc) ==
  IF i > Len(deps) THEN acc ELSE MaxUrl(deps, i + 1, Max(acc, Len(deps[i].url)))

\* faulty variant: only the first deployment's url is measured
UrlLengthOfFirst(deps) ==
  (IF deps = << >> THEN 0 ELSE Len(deps[1].url)) + UrlPadding

UrlLength(deps) == MaxUrl(deps, 1, 0) + UrlPadding

\* `app` in the scan loop is the Map entry [name, deps]; app.find() visits the
\* name (a string) and the deps array, and reads .scale of each: neither has one.
EntryScales(entry) == << NoScale, NoScale >>

\* app.find(depl => depl.scale && depl.scale.current > 1)
EntryFind(entry) ==
  \E k \in 1..2 : EntryScales(entry)[k] # NoScale /\ EntryScales(entry)[k] > 1

\* app[1].length > 5 || app.find(...)
EntryShowsAll(entry) == Len(entry[2]) > ShowAllThreshold \/ EntryFind(entry)

\* for (const app of apps) { shouldShowAllInfo = ...; if (shouldShowAllInfo) break }
RECURSIVE ScanApps(_, _)
ScanApps(m, i) ==
  IF i > Len(m) THEN FALSE
  ELSE IF EntryShowsAll(m[i]) THEN TRUE ELSE ScanApps(m, i + 1)

ShouldShowAllInfo(m) == ScanApps(m, 1)

\* if (!argv.all && shouldShowAllInfo)
ShowHint(all, m) == ~all /\ ShouldShowAllInfo(m)

\* faulty variant: the cap is applied with --all too
ListedIgnoringAll(all, deps) == SubSeq(deps, 1, Min(DisplayCap, Len(deps)))

\* argv.all ? deps : deps.slice(0, 5)
ListedDeployments(all, deps) ==
  IF all THEN deps ELSE SubSeq(deps, 1, Min(DisplayCap, Len(deps)))

\* width of the url field of a deployment row
RowWidth(color, urlLength) ==
  IF color THEN urlLength + ColorPad ELSE urlLength + PlainPad

\* width of the url field of an instance row
InstWidth(urlLength) == urlLength + InstPad

InstLines(dep, name, urlLength) ==
  [j \in 1..Len(dep.instances) |->
     Line("inst", name, dep.uid, j, 0, InstWidth(urlLength), 0)]

\* one deployment row, its instance rows and the blank line after them
DepLines(dep, name, urlLength, color) ==
  << Line("row", name, dep.uid, dep.scale, 0, RowWidth(color, urlLength),
          Len(dep.url)) >>
  \o InstLines(dep, name, urlLength)
  \o (IF Len(dep.instances) > 0 THEN << Line("blank", "", 0, 0, 0, 0, 0) >> ELSE << >>)

RECURSIVE RowLines(_, _, _, _, _)
RowLines(deps, i, name, urlLength, color) ==
  IF i > Len(deps) THEN << >>
  ELSE DepLines(deps[i], name, urlLength, color)
       \o RowLines(deps, i + 1, name, urlLength, color)

\* the body of sorted.forEach(([name, deps]) => ...)
GroupLines(entry, all, urlLength, color) ==
  LET listed == ListedDeployments(all, entry[2]) IN
    << Line("group", entry[1], 0, Len(listed), Len(entry[2]), 0, 0),
       Line("colhdr", entry[1], 0, 0, 0, urlLength, 0) >>
    \o RowLines(listed, 1, entry[1], urlLength, color)
    \o << Line("blank", "", 0, 0, 0, 0, 0) >>

RECURSIVE ReportLines(_, _, _, _, _)
ReportLines(groups, i, all, urlLength, color) ==
  IF i > Len(groups) THEN << >>
  ELSE GroupLines(groups[i], all, urlLength, color)
       \o ReportLines(groups, i + 1, all, urlLength, color)

Render ==
  /\ pc = "render"
  /\ output' = output
       \o << Line("summary", "", 0, Len(deployments), 0, 0, 0) >>
       \o (IF ShowHint(argvAll, apps) THEN << Line("hint", "", 0, 0, 0, 0, 0) >> ELSE << >>)
       \o << Line("blank", "", 0, 0, 0, 0, 0) >>
       \o ReportLines(sorted, 1, argvAll, UrlLength(deployments), supportsColor)
  /\ pc' = "done"
  /\ UNCHANGED << argvAll, app, supportsColor, server, deployments, item, fetch,
                  writes, apps, sorted, calls, exitCode >>

------------------------------------------------------------------------------
Next ==
  \/ CheckUsage
  \/ NowListOk
  \/ NowListFail
  \/ FindDeploymentOk
  \/ FindDeploymentFail
  \/ ListAliasesOk
  \/ ListAliasesFail
  \/ FindAliasedOk
  \/ FindAliasedFail
  \/ Close
  \/ \E i \in DOMAIN fetch : FetchDone(i)
  \/ \E i \in DOMAIN fetch : FetchFail(i)
  \/ Join
  \/ Group
  \/ Sort
  \/ Render



Spec == Init /\ [][Next]_vars

------------------------------------------------------------------------------
(* Vocabulary of the properties *)

Resolved == {"close", "instances", "group", "sort", "render", "done"}
Grouped == {"sort", "render", "done"}
ReportKinds == {"summary", "hint", "group", "colhdr", "row", "inst"}
GroupNames == Names \cup {"f"}

\* the deployments as resolved, without what the fan-out attached
Bare(deps) == [i \in 1..Len(deps) |-> [deps[i] EXCEPT !.instances = << >>]]

LinesOf(kind, name) ==
  LET Is(l) == l.kind = kind /\ l.name = name IN SelectSeq(output, Is)

KindLines(kind) == LET Is(l) == l.kind = kind IN SelectSeq(output, Is)

Members(name) == LET Is(d) == d.name = name IN SelectSeq(deployments, Is)

FirstSeen(name) ==
  CHOOSE i \in 1..Len(deployments) :
    /\ deployments[i].name = name
    /\ \A j \in 1..(i - 1) : deployments[j].name # name

NothingRendered == \A i \in 1..Len(output) : output[i].kind \notin ReportKinds

CalledFallback ==
  \E j \in 1..Len(calls) : calls[j].fn \in {"findDeployment", "listAliases"}

------------------------------------------------------------------------------
\* C1: a call of tier 2 or tier 3 is made only after every call of the lower
\* tiers succeeded with an empty result; after a failed now.list,
\* now.findDeployment or now.listAliases no further call is made, no report
\* line is written and the process has exited with status 1.
C1_FallbackOnlyAfterEmptySuccess ==
  /\ \A j \in 1..Len(calls) :
       calls[j].tier \in {2, 3} =>
         /\ \E i \in 1..(j - 1) : calls[i].tier = calls[j].tier - 1
         /\ \A i \in 1..(j - 1) :
              /\ calls[i].ok
              /\ calls[i].tier < calls[j].tier => calls[i].empty
  /\ \A j \in 1..Len(calls) :
       ~calls[j].ok =>
         /\ j = Len(calls)
         /\ pc = "exit"
         /\ exitCode = 1
         /\ NothingRendered

C1_Witness ==
  /\ pc = "exit"
  /\ Len(calls) = 4
  /\ calls[4].fn = "findDeployment"
  /\ calls[4].tier = 3
  /\ ~calls[4].ok

\* C2 (as claimed): without a target no now.findDeployment and no
\* now.listAliases call is made, and the resolved set is what now.list returned.
C2_DirectListingTerminal ==
  app = Undefined =>
    /\ ~CalledFallback
    /\ pc \in Resolved => Bare(deployments) = server.list

\* C3: with --all and no target, no collaborator is ever called, and once the
\* check has run the process has exited with status 1 after the usage line.
C3_UsageErrorBeforeAnyCall ==
  (argvAll /\ app = Undefined) =>
    /\ calls = << >>
    /\ pc \in {"start", "exit"}
    /\ pc = "exit" =>
         /\ exitCode = 1
         /\ Len(output) = 1
         /\ output[1].kind = "usage"

C3_Witness == argvAll /\ app = Undefined /\ pc = "exit"

\* C4 (as claimed): a failed now.listInstances does not abort the command.
C4_PartialFailureStillRenders ==
  (\E i \in DOMAIN fetch : fetch[i] = "failed") => (pc # "exit" /\ exitCode = 0)

\* C5 (as claimed): the hint is printed iff --all was not requested and some
\* group has more than 5 members or some deployment has scale.current > 1;
\* it is printed once, before any group output.
C5_HintIffCapOrScale ==
  pc = "done" =>
    /\ Len(KindLines("hint")) = 1
         <=> /\ ~argvAll
             /\ \/ \E nm \in GroupNames : Len(Members(nm)) > 5
                \/ \E i \in 1..Len(deployments) : deployments[i].scale > 1
    /\ Len(KindLines("hint")) <= 1
    /\ \A i, j \in 1..Len(output) :
         (output[i].kind = "hint" /\ output[j].kind = "group") => i < j

\* C6 (as claimed): when the target equals the alias field of some entry of the
\* alias table and now.findDeployment finds that entry's deploymentId, the
\* resolved set is exactly that deployment.
C6_AnyAliasEntryResolves ==
  (pc \in Resolved /\ \E j \in 1..Len(calls) : calls[j].fn = "listAliases") =>
    \A i \in 1..Len(server.aliases) :
      (server.aliases[i].alias = app /\ server.find[server.aliases[i].deploymentId])
        => Bare(deployments) = << FoundDep(server.aliases[i].deploymentId) >>

\* C6 (amended): when the alias table is consulted and the FIRST entry whose
\* uid or alias equals the target has a deploymentId that now.findDeployment
\* finds, the resolved set is exactly that deployment.
C6_FirstAliasEntryResolves ==
  (pc \in Resolved /\ \E j \in 1..Len(calls) : calls[j].fn = "listAliases") =>
    \A i \in 1..Len(server.aliases) :
      ( /\ server.aliases[i].uid = app \/ server.aliases[i].alias = app
        /\ \A h \in 1..(i - 1) :
             server.aliases[h].uid # app /\ server.aliases[h].alias # app
        /\ server.find[server.aliases[i].deploymentId] )
        => Bare(deployments) = << FoundDep(server.aliases[i].deploymentId) >>

C6_Witness ==
  /\ pc = "done"
  /\ Len(calls) >= 4
  /\ calls[3].fn = "listAliases"
  /\ Len(server.aliases) = 2
  /\ server.aliases[1].uid # app /\ server.aliases[1].alias # app
  /\ server.aliases[2].uid # app /\ server.aliases[2].alias = app
  /\ Len(deployments) = 1
  /\ deployments[1].uid = FoundUid(server.aliases[2].deploymentId)

\* C7: a group of n deployments prints k rows, k = n with --all and min(n, 5)
\* without; the rows are the first k members of the group, in group order, and
\* the group header reports k of n.
C7_RowsAndHeaderPerGroup ==
  pc = "done" =>
    /\ Len(KindLines("group")) = Len(sorted)
    /\ \A g \in 1..Len(sorted) :
         LET deps == sorted[g][2]
             n == Len(deps)
             k == IF argvAll THEN n ELSE (IF n < 5 THEN n ELSE 5)
             hdr == KindLines("group")[g]
             rows == LinesOf("row", sorted[g][1])
         IN  /\ hdr.name = sorted[g][1]
             /\ hdr.k = k
             /\ hdr.n = n
             /\ Len(rows) = k
             /\ \A i \in 1..k : rows[i].uid = deps[i].uid

C7_Witness ==
  /\ pc = "done"
  /\ ~argvAll
  /\ \E g \in 1..Len(sorted) :
       /\ Len(sorted[g][2]) = 7
       /\ Len(LinesOf("row", sorted[g][1])) = 5
       /\ LinesOf("group", sorted[g][1])[1].k = 5
       /\ LinesOf("group", sorted[g][1])[1].n = 7

\* C8: one width W = (longest url of all resolved deployments) + 5 is used by
\* every group: every column header has width W, every deployment row W plus
\* the row's fixed pad, every instance row W plus its fixed pad, and
\* W >= length(url) + 5 for every rendered deployment.
C8_SharedUrlWidth ==
  pc = "done" =>
    LET lens == { Len(deployments[i].url) : i \in 1..Len(deployments) } \cup {0}
        W == (CHOOSE m \in lens : \A x \in lens : m >= x) + 5
    IN  \A i \in 1..Len(output) :
          /\ output[i].kind = "colhdr" => output[i].width = W
          /\ output[i].kind = "row" =>
               /\ output[i].width = W + (IF supportsColor THEN 10 ELSE 1)
               /\ W >= output[i].len + 5
          /\ output[i].kind = "inst" => output[i].width = W + 10

C8_Witness ==
  /\ pc = "done"
  /\ argvAll
  /\ \E i, j, h \in 1..Len(output) :
       /\ i < j
       /\ output[i].kind = "row" /\ output[j].kind = "row"
       /\ output[i].name # output[j].name
       /\ output[i].len < output[j].len
       /\ output[h].kind = "inst"

\* C9: the groups partition the resolved deployments by name: one group per
\* name that occurs, in first-seen order of the names, each holding exactly
\* the deployments of that name in their resolved order.
C9_GroupsPartitionByName ==
  pc \in Grouped =>
    /\ \A i \in 1..Len(deployments) :
         \E g \in 1..Len(apps) : apps[g][1] = deployments[i].name
    /\ \A g \in 1..Len(apps) :
         /\ apps[g][2] # << >>
         /\ apps[g][2] = Members(apps[g][1])
    /\ \A g, h \in 1..Len(apps) :
         g < h => /\ apps[g][1] # apps[h][1]
                  /\ FirstSeen(apps[g][1]) < FirstSeen(apps[h][1])

C9_Witness ==
  /\ pc = "done"
  /\ Len(apps) = 2
  /\ \E i, j, k \in 1..Len(deployments) :
       /\ i < j /\ j < k
       /\ deployments[i].name = deployments[k].name
       /\ deployments[i].name # deployments[j].name

\* C10: while the fan-out runs, a step changes at most one deployment, only its
\* instances field, to the answer of listInstances for its own uid; and the
\* grouping starts only with every fetch resolved, every deployment holding the
\* answer for its own uid, written exactly once.
C10_JoinState ==
  (pc \in {"group", "sort", "render", "done"} /\ argvAll) =>
    \A i \in 1..Len(deployments) :
      /\ fetch[i] = "done"
      /\ writes[i] = 1
      /\ deployments[i].instances = InstancesOf(server.inst, deployments[i].uid)

C10_FetchStep ==
  pc = "instances" =>
    /\ Len(deployments') = Len(deployments)
    /\ \A i \in 1..Len(deployments) :
         deployments'[i] # deployments[i] =>
           /\ fetch[i] = "pending"
           /\ fetch'[i] = "done"
           /\ deployments'[i] =
                [deployments[i] EXCEPT
                   !.instances = InstancesOf(server.inst, deployments[i].uid)]
           /\ \A j \in 1..Len(deployments) : j # i => deployments'[j] = deployments[j]

C10_DisjointWritesAndJoin == [][C10_FetchStep /\ C10_JoinState']_vars

C10_Witness ==
  /\ pc = "group"
  /\ argvAll
  /\ Len(deployments) >= 2
  /\ \E i, j \in 1..Len(deployments) :
       deployments[i].instances # << >> /\ deployments[j].instances = << >>
====
